---- MODULE Spec2Model ----
(***************************************************************************)
(* Model of the ai-jr-dev GitHub App: the usage store (MongoDB client),    *)
(* the cost extraction, the quota gate and the two webhook workflows       *)
(* (issues.labeled, pull_request_review.submitted).                        *)
(*                                                                         *)
(* Money is kept in integer cents; the quota unit of $0.25 is 25 cents.    *)
(* Timestamps (created_at, timestamp, addedAt) are not modelled: no        *)
(* decision of the program reads them.                                     *)
(***************************************************************************)
EXTENDS Integers, Sequences, FiniteSets, TLC

VARIABLES
  installations,   \* the "installations" collection: a sequence of documents
  promotionUsers,  \* the "promotionUsers" collection: a sequence of ownerLogin
  lastOp,          \* the store operation that ran last, with what it saw and returned
  opCount,         \* number of store operations run directly (store specification)
  log,             \* the job output handed to extractSessionCost: a sequence of lines
  llmReply,        \* what the LLM fallback of extractSessionCost yields
  costState        \* "pending" | "returned" | "threw"
  , costResult,    \* the value extractSessionCost returned (cents)
  owner,           \* payload.repository.owner.login: the account of the installation
  github,          \* the repository on GitHub: the work branch's SHA, the PRs created
  d,               \* the webhook delivery being handled: position and locals
  clients,         \* the store calls of concurrent deliveries: each one's position
  review,          \* the review a pull_request_review.submitted delivery carries
  issues,          \* the repository's issues: each one's comments and state
  lastClose,       \* the pull_request.closed delivery handled last
  labeled          \* the issue of an issues.labeled delivery and its branch name

storeVars == <<installations, promotionUsers, lastOp, opCount>>
costVars == <<log, llmReply, costState, costResult>>
handlerVars == <<owner, github, d>>
concVars == <<clients>>
eventVars == <<review, issues, lastClose, labeled>>
vars == <<storeVars, costVars, handlerVars, concVars, eventVars>>

----------------------------------------------------------------------------
(* Bounds of the model *)

MaxOps == 4
MaxLogLen == 3

----------------------------------------------------------------------------
(* Helpers *)

RECURSIVE SumSeq(_)
SumSeq(s) == IF s = <<>> THEN 0 ELSE Head(s) + SumSeq(Tail(s))

\* Math.ceil(cents / unit) on integers (\div rounds down, also below zero)
Ceil(cents, unit) == -((-cents) \div unit)


----------------------------------------------------------------------------
(* The usage store: clients/mongodb.ts at its latest revision, the one      *)
(* whose signatures (installationId, renewalDate, prNumber, cost) the       *)
(* webhook handlers call.                                                   *)

InstallationIds == {1}
CycleKeys == {"2100-01-01", "2025-06-01"}
PrNumbers == {7, 8}
StoreCosts == {10, 25}
Logins == {"subco", "freeco"}

\* A document of the collection. A document the upsert has just inserted has
\* no pullRequests field; every reader takes it as [] (pullRequests || []),
\* so the absent field is the empty sequence here. cost is the document's
\* top-level cost field ($inc creates it at 0).
NewInstallation(installationId, renewalDate) ==
  [installationId |-> installationId, renewalDate |-> renewalDate,
   pullRequests |-> <<>>, cost |-> 0]

\* (the variant whose filter leaves out the cycle key)
FindInstallationAnyCycle(coll, installationId, renewalDate) ==
  LET hits == {i \in 1..Len(coll) : coll[i].installationId = installationId}
  IN IF hits = {} THEN 0 ELSE CHOOSE i \in hits : \A j \in hits : i <= j

\* Index of the first document matching {installationId, renewalDate}, 0 if none
FindInstallation(coll, installationId, renewalDate) ==
  LET hits == {i \in 1..Len(coll) :
                 /\ coll[i].installationId = installationId
                 /\ coll[i].renewalDate = renewalDate}
  IN IF hits = {} THEN 0 ELSE CHOOSE i \in hits : \A j \in hits : i <= j

\* The $set of getInstallation's findOneAndUpdate, applied to a matched document
\* (an older revision also set pullRequests: [] here)
getInstallationSetReset(doc, installationId, renewalDate) ==
  [doc EXCEPT !.installationId = installationId, !.renewalDate = renewalDate,
              !.pullRequests = <<>>]

getInstallationSet(doc, installationId, renewalDate) ==
  [doc EXCEPT !.installationId = installationId, !.renewalDate = renewalDate]

\* getInstallation: findOneAndUpdate(filter, $set, {upsert, returnDocument: after}).
\* The collection afterwards.
getInstallation(coll, installationId, renewalDate) ==
  LET i == FindInstallation(coll, installationId, renewalDate)
  IN IF i = 0
       THEN Append(coll, NewInstallation(installationId, renewalDate))
       ELSE [coll EXCEPT ![i] =
               getInstallationSet(coll[i], installationId, renewalDate)]

\* The document getInstallation returns (returnDocument: "after")
getInstallationResult(coll, installationId, renewalDate) ==
  LET after == getInstallation(coll, installationId, renewalDate)
  IN after[FindInstallation(after, installationId, renewalDate)]

\* updateOne({installationId, renewalDate}, {$set: {pullRequests: prs}, $inc: {cost: inc}})
UpdatePullRequests(coll, installationId, renewalDate, prs, inc) ==
  LET i == FindInstallation(coll, installationId, renewalDate)
  IN IF i = 0 THEN coll
     ELSE [coll EXCEPT ![i].pullRequests = prs, ![i].cost = @ + inc]

\* prs.push(newPr): the list addPullRequestToUsage writes back, the new PR with
\* its initial session pushed onto the list it read
WithNewPr(prs, prNumber, initialCost) ==
  Append(prs, [number |-> prNumber, cost |-> initialCost,
               sessions |-> <<initialCost>>])

\* addPullRequestToUsage: read the document, push the new PR with its initial
\* session, write the list back
addPullRequestToUsage(coll, installationId, renewalDate, prNumber, initialCost) ==
  LET read == getInstallation(coll, installationId, renewalDate)
      installation == getInstallationResult(coll, installationId, renewalDate)
      prs == WithNewPr(installation.pullRequests, prNumber, initialCost)
  IN UpdatePullRequests(read, installationId, renewalDate, prs, 0)

\* Array.prototype.find: index of the first PR with that number, 0 if none
FindPr(prs, prNumber) ==
  LET hits == {i \in 1..Len(prs) : prs[i].number = prNumber}
  IN IF hits = {} THEN 0 ELSE CHOOSE i \in hits : \A j \in hits : i <= j

\* What addSessionToPullRequest does to the PR it found: pr.sessions.push(session).
\* (the variant that also adds the session's cost to pr.cost)
PushSessionAndCost(pr, sessionCost) ==
  [pr EXCEPT !.sessions = Append(@, sessionCost), !.cost = @ + sessionCost]

\* (the variant that keeps only the new session)
PushSessionReplace(pr, sessionCost) ==
  [pr EXCEPT !.sessions = <<sessionCost>>]

\* pr.sessions.push(session)
PushSession(pr, sessionCost) ==
  [pr EXCEPT !.sessions = Append(@, sessionCost)]

\* (the variant that leaves the list alone when the PR has no entry)
WithSessionSkipMissing(pullRequests, prNumber, sessionCost) ==
  LET found == FindPr(pullRequests, prNumber)
  IN IF found = 0 THEN pullRequests
     ELSE [pullRequests EXCEPT ![found] = PushSession(pullRequests[found], sessionCost)]

\* The list addSessionToPullRequest writes back: the PR found in the list it
\* read (or a new one with cost = sessionCost and no session, pushed at the
\* end) with the session pushed onto it
WithSession(pullRequests, prNumber, sessionCost) ==
  LET found == FindPr(pullRequests, prNumber)
      withPr == IF found = 0
                  THEN Append(pullRequests,
                              [number |-> prNumber, cost |-> sessionCost,
                               sessions |-> <<>>])
                  ELSE pullRequests
      k == IF found = 0 THEN Len(withPr) ELSE found
  IN [withPr EXCEPT ![k] = PushSession(withPr[k], sessionCost)]

\* addSessionToPullRequest: read the document, push the session, write the
\* list back and $inc the document's cost
addSessionToPullRequest(coll, installationId, renewalDate, prNumber, sessionCost) ==
  LET read == getInstallation(coll, installationId, renewalDate)
      installation == getInstallationResult(coll, installationId, renewalDate)
      prs == WithSession(installation.pullRequests, prNumber, sessionCost)
  IN UpdatePullRequests(read, installationId, renewalDate, prs, sessionCost)

\* getPromotionCount: countDocuments()
getPromotionCount(coll) == Len(coll)

\* findPromotionUser: findOne({ownerLogin})
findPromotionUser(coll, ownerLogin) ==
  \E i \in 1..Len(coll) : coll[i] = ownerLogin

\* (the variant that inserts without looking)
addPromotionUserInsert(coll, ownerLogin) == Append(coll, ownerLogin)

\* addPromotionUser: findOneAndUpdate({ownerLogin}, {$setOnInsert: ...}, {upsert})
addPromotionUser(coll, ownerLogin) ==
  IF findPromotionUser(coll, ownerLogin) THEN coll ELSE Append(coll, ownerLogin)

NoOp == [name |-> "none", installationId |-> 0, renewalDate |-> "", prNumber |-> 0,
         cost |-> 0, login |-> "", existed |-> FALSE, before |-> <<>>,
         returned |-> <<>>, countBefore |-> 0]

\* No delivery is being handled
NoDelivery ==
  [flow |-> "none", pc |-> "idle", gate |-> "pending", denial |-> "none",
   renewalDate |-> "", startSha |-> 0, firstUnchanged |-> FALSE, jobCalls |-> 0,
   job1 |-> "none", job2 |-> "none", analyzerCalls |-> 0, sessionCost |-> 0,
   comments |-> {}, labelRemoved |-> FALSE, errorHandlerCalls |-> 0,
   secondaryFailure |-> "none", prNumber |-> 0, usageAppends |-> 0,
   reviewReset |-> FALSE, labelFailed |-> FALSE, usageFailed |-> FALSE,
   resetCalls |-> 0, endUnchanged |-> FALSE, lookupFailed |-> FALSE,
   jobSubmits |-> 0, jobFail |-> "none"]

HandlerIdle ==
  /\ owner = ""
  /\ github = [branch |-> 0, prs |-> 0, reviews |-> 0]
  /\ d = NoDelivery

\* No concurrent store call is under way
ConcIdle == clients = <<>>

\* No review and no pull_request.closed delivery is looked at
EventIdle ==
  /\ review = <<>>
  /\ issues = <<>>
  /\ lastClose = <<>>
  /\ labeled = <<>>

\* --- the store's operations, called one after the other ---

GetInstallationOp(installationId, renewalDate) ==
  /\ opCount < MaxOps
  /\ installations' = getInstallation(installations, installationId, renewalDate)
  /\ lastOp' = [NoOp EXCEPT
        !.name = "getInstallation", !.installationId = installationId,
        !.renewalDate = renewalDate,
        !.existed = (FindInstallation(installations, installationId, renewalDate) # 0),
        !.before = IF FindInstallation(installations, installationId, renewalDate) = 0
                     THEN <<>>
                     ELSE installations[FindInstallation(installations, installationId,
                                                         renewalDate)].pullRequests,
        !.returned = getInstallationResult(installations, installationId,
                                           renewalDate).pullRequests]
  /\ opCount' = opCount + 1
  /\ UNCHANGED <<promotionUsers, costVars, handlerVars, concVars, eventVars>>

AddPullRequestOp(installationId, renewalDate, prNumber, initialCost) ==
  /\ opCount < MaxOps
  /\ installations' = addPullRequestToUsage(installations, installationId, renewalDate,
                                            prNumber, initialCost)
  /\ lastOp' = [NoOp EXCEPT
        !.name = "addPullRequestToUsage", !.installationId = installationId,
        !.renewalDate = renewalDate, !.prNumber = prNumber, !.cost = initialCost]
  /\ opCount' = opCount + 1
  /\ UNCHANGED <<promotionUsers, costVars, handlerVars, concVars, eventVars>>

AddSessionOp(installationId, renewalDate, prNumber, sessionCost) ==
  /\ opCount < MaxOps
  /\ installations' = addSessionToPullRequest(installations, installationId, renewalDate,
                                              prNumber, sessionCost)
  /\ lastOp' = [NoOp EXCEPT
        !.name = "addSessionToPullRequest", !.installationId = installationId,
        !.renewalDate = renewalDate, !.prNumber = prNumber, !.cost = sessionCost,
        !.existed =
          (FindPr(getInstallationResult(installations, installationId,
                                        renewalDate).pullRequests, prNumber) # 0)]
  /\ opCount' = opCount + 1
  /\ UNCHANGED <<promotionUsers, costVars, handlerVars, concVars, eventVars>>

AddPromotionUserOp(ownerLogin) ==
  /\ opCount < MaxOps
  /\ promotionUsers' = addPromotionUser(promotionUsers, ownerLogin)
  /\ lastOp' = [NoOp EXCEPT
        !.name = "addPromotionUser", !.login = ownerLogin,
        !.existed = findPromotionUser(promotionUsers, ownerLogin),
        !.countBefore = getPromotionCount(promotionUsers)]
  /\ opCount' = opCount + 1
  /\ UNCHANGED <<installations, costVars, handlerVars, concVars, eventVars>>

CostIdle ==
  /\ log = <<>>
  /\ llmReply = "error"
  /\ costState = "idle"
  /\ costResult = 0

InitStore ==
  /\ installations = <<>>
  /\ promotionUsers = <<>>
  /\ lastOp = NoOp
  /\ opCount = 0
  /\ CostIdle
  /\ HandlerIdle
  /\ ConcIdle
  /\ EventIdle

NextStore ==
  \/ \E i \in InstallationIds, k \in CycleKeys : GetInstallationOp(i, k)
  \/ \E i \in InstallationIds, k \in CycleKeys, n \in PrNumbers, c \in StoreCosts :
       AddPullRequestOp(i, k, n, c)
  \/ \E i \in InstallationIds, k \in CycleKeys, n \in PrNumbers, c \in StoreCosts :
       AddSessionOp(i, k, n, c)
  \/ \E u \in Logins : AddPromotionUserOp(u)

SpecStore == InitStore /\ [][NextStore]_vars

----------------------------------------------------------------------------
(* Cost extraction: extractSessionCost of clients/openai.ts.  A job log is  *)
(* a sequence of lines; amounts are returned in cents.                      *)

LogLines == {"Tokens: 1.2k sent, 80 received.",
             "Cost: $0.01 message, $0.02 session.",
             "Cost: $0.03 message, $0.07 session.",
             "Cost: $0.50 message, $12.50 session.",
             "Cost: $1 message, $2 session."}

\* What the LLM fallback yields: the call throws, the choice has no content, or
\* it has this text
LlmReplies == {"<throws>", "<no content>", "  ", "no cost line found", "0",
               " 0.07\n", "-0.5"}

\* costPattern on one line: the text of capture group 1 (the session figure),
\* "" when the line does not match.
\*   /Cost: \$\d+\.\d+ message, \$(\d+(?:\.\d+)?) session(?!session)/
\* The message figure needs a decimal point, so "$1 message" does not match.
costPattern(line) ==
  CASE line = "Cost: $0.01 message, $0.02 session." -> "0.02"
    [] line = "Cost: $0.03 message, $0.07 session." -> "0.07"
    [] line = "Cost: $0.50 message, $12.50 session." -> "12.50"
    [] OTHER -> ""

\* String.prototype.trim on the texts of the model
trim(text) ==
  CASE text = "  " -> ""
    [] text = " 0.07\n" -> "0.07"
    [] OTHER -> text

\* isNaN(parseFloat(text))
parseFloatIsNaN(text) == text \in {"", "no cost line found", "<no content>"}

\* parseFloat(text), in cents, for the texts it reads a number from
parseFloat(text) ==
  CASE text = "0.02" -> 2
    [] text = "0.07" -> 7
    [] text = "12.50" -> 1250
    [] text = "0" -> 0
    [] text = "-0.5" -> -50
    [] OTHER -> 0

\* Indexes of the lines of the log that match costPattern
Matches(lines) == {i \in 1..Len(lines) : costPattern(lines[i]) # ""}

\* (the variant that keeps the last match, as the loop of an older revision did)
costPatternExecLast(lines) ==
  IF Matches(lines) = {} THEN 0
  ELSE CHOOSE i \in Matches(lines) : \A j \in Matches(lines) : j <= i

\* costPattern.exec(jobOutput), called once on a fresh regex: the leftmost
\* match (the index of its line), 0 for null
costPatternExec(lines) ==
  IF Matches(lines) = {} THEN 0
  ELSE CHOOSE i \in Matches(lines) : \A j \in Matches(lines) : i <= j

\* The body of extractSessionCost's try block: whether it threw, and what it
\* returned otherwise
extractSessionCostTry(lines, reply) ==
  LET match == costPatternExec(lines)
      content == trim(reply)
  IN IF match # 0
       THEN [threw |-> FALSE, value |-> parseFloat(costPattern(lines[match]))]
     ELSE IF reply = "<throws>"
       THEN [threw |-> TRUE, value |-> 0]
     ELSE IF reply = "<no content>" \/ content = ""
       THEN [threw |-> FALSE, value |-> 0]
     ELSE [threw |-> FALSE,
           value |-> IF parseFloatIsNaN(content) THEN 0 ELSE parseFloat(content)]

\* extractSessionCost: the try block, and 0 from the catch
extractSessionCost(lines, reply) ==
  IF extractSessionCostTry(lines, reply).threw THEN 0
  ELSE extractSessionCostTry(lines, reply).value

RECURSIVE SeqsUpTo(_, _)
SeqsUpTo(S, n) ==
  IF n = 0 THEN {<<>>}
  ELSE SeqsUpTo(S, n - 1)
         \cup {Append(q, x) : q \in {r \in SeqsUpTo(S, n - 1) : Len(r) = n - 1}, x \in S}

StoreIdle ==
  /\ installations = <<>>
  /\ promotionUsers = <<>>
  /\ lastOp = NoOp
  /\ opCount = 0

InitCost ==
  /\ log \in SeqsUpTo(LogLines, MaxLogLen)
  /\ llmReply \in LlmReplies
  /\ costState = "pending"
  /\ costResult = 0
  /\ StoreIdle
  /\ HandlerIdle
  /\ ConcIdle
  /\ EventIdle

\* One call extractSessionCost(jobOutput)
ExtractCost ==
  /\ costState = "pending"
  /\ costState' = "returned"
  /\ costResult' = extractSessionCost(log, llmReply)
  /\ UNCHANGED <<log, llmReply, storeVars, handlerVars, concVars, eventVars>>

NextCost == ExtractCost

SpecCost == InitCost /\ [][NextCost]_vars

----------------------------------------------------------------------------
(* Entitlement: checkQuotaAndNotify and getInstallationFromOwner of         *)
(* clients/github.ts                                                        *)

MaxWork == 3
MaxQuotaPrs == 9

Owners == {"acme", "subco", "freeco"}

\* The enterpriseAccounts collection (the program only reads it)
EnterpriseAccounts == {"acme"}

\* payload.installation.id
InstallationId == 1

\* ceil(pr.cost / 0.25): the quota unit, in cents
UnitCost == 25

\* The SHA of the default branch's head
DefaultSha == 1

\* (the variant without the enterprise bypass)
getEnterpriseClientNone(names) == FALSE

\* getEnterpriseClient: findOne({name: {$in: names}}) is not null
getEnterpriseClient(names) == names \cap EnterpriseAccounts # {}

\* PRICE_LIMITS[monthly_price_in_cents]; undefined for a price not in the table
PRICE_LIMITS(price) ==
  CASE price = 500 -> [defined |-> TRUE, value |-> 8]
    [] price = 1000 -> [defined |-> TRUE, value |-> 20]
    [] price = 2000 -> [defined |-> TRUE, value |-> 50]
    [] OTHER -> [defined |-> FALSE, value |-> 0]

\* The marketplace purchase GitHub reports for the account, if any
MarketplacePurchase(accountName) ==
  IF accountName = "subco"
    THEN [found |-> TRUE, monthly_price_in_cents |-> 500,
          next_billing_date |-> "2025-06-01"]
  ELSE IF accountName = "oddco"
    THEN [found |-> TRUE, monthly_price_in_cents |-> 1500,
          next_billing_date |-> "2025-06-01"]
    ELSE [found |-> FALSE, monthly_price_in_cents |-> 0, next_billing_date |-> ""]

\* (the variant whose catch does not cover the lookup)
getSubscriptionDetailsUncaught(accountName, lookupOk) ==
  IF MarketplacePurchase(accountName).found
    THEN [found |-> TRUE,
          monthlyPrLimit |->
            PRICE_LIMITS(MarketplacePurchase(accountName).monthly_price_in_cents),
          renewalDate |-> MarketplacePurchase(accountName).next_billing_date]
    ELSE [found |-> FALSE, monthlyPrLimit |-> [defined |-> FALSE, value |-> 0],
          renewalDate |-> "undefined"]

\* getSubscriptionDetails: null (found = FALSE) when the lookup throws or reports
\* no purchase
getSubscriptionDetails(accountName, lookupOk) ==
  IF lookupOk /\ MarketplacePurchase(accountName).found
    THEN [found |-> TRUE,
          monthlyPrLimit |->
            PRICE_LIMITS(MarketplacePurchase(accountName).monthly_price_in_cents),
          renewalDate |-> MarketplacePurchase(accountName).next_billing_date]
    ELSE [found |-> FALSE, monthlyPrLimit |-> [defined |-> FALSE, value |-> 0],
          renewalDate |-> "undefined"]

\* pullRequests.reduce((tot, pr) => tot + Math.ceil(pr.cost / 0.25), 0) || 0
RECURSIVE prCount(_)
prCount(prs) ==
  IF prs = <<>> THEN 0 ELSE Ceil(Head(prs).cost, UnitCost) + prCount(Tail(prs))

\* (the variant comparing with >)
QuotaExceededStrict(count, monthlyPrLimit) ==
  monthlyPrLimit.defined /\ count > monthlyPrLimit.value

\* prCount >= subscription.monthlyPrLimit (false against undefined)
QuotaExceeded(count, monthlyPrLimit) ==
  monthlyPrLimit.defined /\ count >= monthlyPrLimit.value

\* The cycle key getInstallationFromOwner reads the usage document under
getInstallationFromOwnerKey(accountName, lookupOk) ==
  IF getEnterpriseClient({accountName}) THEN "2100-01-01"
  ELSE getSubscriptionDetails(accountName, lookupOk).renewalDate

----------------------------------------------------------------------------
(* The webhook handlers: webhooks/issues.labeled.ts and                     *)
(* webhooks/pull_request_review.submitted.ts.  One delivery is handled at a *)
(* time; each action is one stretch of the handler between external calls.  *)

\* What one run of the job can do: throw or return its log, having pushed a
\* commit to the branch or not
JobLogs == {<<>>,
            <<"Tokens: 1.2k sent, 80 received.", "Cost: $0.01 message, $0.02 session.">>,
            <<"Cost: $0.50 message, $12.50 session.">>}

\* What fails inside runCloudRunJob: nothing, createInstallationAccessToken, or
\* the job (runJob, its operation or the reading of its log)
JobFailures == {"none", "token", "job"}

\* (the variant that submits the job without a token)
JobSubmittedAlways(fail) == TRUE

\* jobsClient.runJob is reached only after the token was obtained
JobSubmitted(fail) == fail # "token"

\* catch (error) { ...; throw error; }
JobThrew(fail) == fail # "none"

\* A job that was not submitted pushes no commit
JobOutcomes ==
  {o \in [fail : JobFailures, advanced : BOOLEAN, log : JobLogs] :
     o.fail = "token" => ~o.advanced}

JobReturns == {o \in JobOutcomes : ~JobThrew(o.fail)}

\* The LLM fallback of the cost extraction during a delivery
FallbackReply == "<throws>"

Throw(delivery) == [delivery EXCEPT !.pc = "catch"]

\* issues.labeled for a watched label
IssuesLabeled(maxWork) ==
  /\ d.pc \in {"idle", "done"}
  /\ github.prs + github.reviews < maxWork
  /\ d' = [NoDelivery EXCEPT !.flow = "issue", !.pc = "gate"]
  /\ UNCHANGED <<owner, github, storeVars, costVars, concVars, eventVars>>

\* (the variant that goes on without an installation)
AfterGateProceed(admitted) == "working"

\* if (!installation) return;
AfterGate(admitted) == IF admitted THEN "working" ELSE "done"

\* checkQuotaAndNotify and the handler's test of what it returned
CheckQuotaAndNotify(dbOk, lookupOk, commentOk, labelOk) ==
  /\ d.flow = "issue" /\ d.pc = "gate"
  /\ LET subscription == getSubscriptionDetails(owner, lookupOk)
         installation == getInstallationResult(installations, InstallationId,
                                               subscription.renewalDate)
     IN IF ~dbOk
          THEN /\ d' = Throw(d)
               /\ UNCHANGED installations
        ELSE IF getEnterpriseClient({owner})
          THEN /\ installations' = getInstallation(installations, InstallationId,
                                                   "2100-01-01")
               /\ d' = [d EXCEPT !.gate = "admitted", !.renewalDate = "2100-01-01",
                                 !.pc = AfterGate(TRUE)]
        ELSE IF ~subscription.found
          THEN /\ UNCHANGED installations
               /\ d' = IF ~commentOk
                         THEN Throw([d EXCEPT !.gate = "denied", !.denial = "nosub",
                                              !.lookupFailed = ~lookupOk])
                       ELSE [d EXCEPT !.comments = @ \cup {"nosub"},
                                      !.lookupFailed = ~lookupOk,
                                      !.labelRemoved = labelOk,
                                      !.labelFailed = ~labelOk,
                                      !.gate = "denied", !.denial = "nosub",
                                      !.pc = AfterGate(FALSE)]
        ELSE /\ installations' = getInstallation(installations, InstallationId,
                                                 subscription.renewalDate)
             /\ d' = IF QuotaExceeded(prCount(installation.pullRequests),
                                      subscription.monthlyPrLimit)
                       THEN \* createQuotaExceededComment, then return null
                            [d EXCEPT !.gate = "denied", !.denial = "quota",
                                      !.lookupFailed = ~lookupOk,
                                      !.comments = IF commentOk THEN @ \cup {"quota"}
                                                   ELSE @,
                                      !.labelRemoved = commentOk /\ labelOk,
                                      !.pc = IF commentOk /\ labelOk
                                               THEN AfterGate(FALSE)
                                             ELSE "catch"]
                       ELSE [d EXCEPT !.gate = "admitted",
                                      !.lookupFailed = ~lookupOk,
                                      !.renewalDate = installation.renewalDate,
                                      !.pc = AfterGate(TRUE)]
  /\ UNCHANGED <<owner, github, promotionUsers, lastOp, opCount, costVars, concVars, eventVars>>

\* createBranch: the ref of the issue's branch afterwards (an existing branch is
\* force-updated to the default branch's head, a missing one is created there)
createBranch(branchSha) ==
  IF branchSha # 0 THEN DefaultSha ELSE DefaultSha

\* createWorkingComment, createBranch and the getBranch that reads startBranch
PrepareBranch(fail) ==
  /\ d.flow = "issue" /\ d.pc = "working"
  /\ IF fail = "comment"
       THEN d' = Throw(d) /\ UNCHANGED github
     ELSE IF fail = "branch"
       THEN /\ d' = Throw([d EXCEPT !.comments = @ \cup {"working"}])
            /\ UNCHANGED github
     ELSE /\ github' = [github EXCEPT !.branch = createBranch(github.branch)]
          /\ d' = [d EXCEPT !.comments = @ \cup {"working"},
                            !.startSha = createBranch(github.branch),
                            !.pc = "run1"]
  /\ UNCHANGED <<owner, storeVars, costVars, concVars, eventVars>>

\* pull_request_review.submitted with changes requested on a PR of the app:
\* generateReviewPrompt (null when there is nothing actionable), listFiles and
\* the getBranch that reads startBranch
PullRequestReviewSubmitted(prNumber, actionable, apiOk) ==
  /\ d.pc \in {"idle", "done"}
  /\ prNumber \in 1..github.prs
  /\ github.prs + github.reviews < MaxWork
  /\ github' = [github EXCEPT !.reviews = @ + 1]
  /\ d' = IF ~apiOk
            THEN [NoDelivery EXCEPT !.flow = "review", !.prNumber = prNumber,
                                    !.pc = "catch"]
          ELSE IF ~actionable
            THEN [NoDelivery EXCEPT !.flow = "review", !.prNumber = prNumber,
                                    !.pc = "done"]
          ELSE [NoDelivery EXCEPT !.flow = "review", !.prNumber = prNumber,
                                  !.startSha = github.branch, !.pc = "run1"]
  /\ UNCHANGED <<owner, storeVars, costVars, concVars, eventVars>>

\* (the variant that runs the job again after a failed first run)
AfterJobRetryOnError(pc, threw) ==
  IF pc = "run1" THEN (IF threw THEN "run2" ELSE "mid")
  ELSE IF threw THEN "catch" ELSE "end"

\* Where the handler goes after runCloudRunJob: a throw lands in the catch
AfterJob(pc, threw) ==
  IF threw THEN "catch" ELSE IF pc = "run1" THEN "mid" ELSE "end"

\* runCloudRunJob and, when it returns, extractSessionCost of its log
RunCloudRunJob(outcome) ==
  /\ d.pc \in {"run1", "run2"}
  /\ github' = [github EXCEPT !.branch = IF outcome.advanced THEN @ + 1 ELSE @]
  /\ d' = [d EXCEPT
        !.jobCalls = @ + 1,
        !.jobSubmits = IF JobSubmitted(outcome.fail) THEN @ + 1 ELSE @,
        !.jobFail = outcome.fail,
        !.job1 = IF d.pc = "run1"
                   THEN (IF JobThrew(outcome.fail) THEN "threw" ELSE "returned")
                   ELSE @,
        !.job2 = IF d.pc = "run2"
                   THEN (IF JobThrew(outcome.fail) THEN "threw" ELSE "returned")
                   ELSE @,
        !.sessionCost = IF JobThrew(outcome.fail) THEN @
                        ELSE IF d.pc = "run1"
                          THEN extractSessionCost(outcome.log, FallbackReply)
                        ELSE @ + extractSessionCost(outcome.log, FallbackReply),
        !.pc = AfterJob(d.pc, JobThrew(outcome.fail))]
  /\ UNCHANGED <<owner, storeVars, costVars, concVars, eventVars>>

\* (the variant that never retries)
ShouldRetryNever(startSha, midSha) == FALSE

\* (the variant of hasBranchChanged: the branch against the default branch)
ShouldRetryAgainstDefault(startSha, midSha) == midSha = DefaultSha

\* (the variant that always runs the job a second time)
ShouldRetryAlways(startSha, midSha) == TRUE

\* startBranch.data.commit.sha === midBranch.data.commit.sha
ShouldRetry(startSha, midSha) == startSha = midSha

\* The getBranch that reads midBranch, the comparison and identifyMissingFiles
\* (which returns [] on any error)
CheckMid(apiOk) ==
  /\ d.pc = "mid"
  /\ d' = IF ~apiOk THEN Throw(d)
          ELSE IF ShouldRetry(d.startSha, github.branch)
            THEN [d EXCEPT !.firstUnchanged = (d.startSha = github.branch),
                           !.analyzerCalls = @ + 1, !.pc = "run2"]
          ELSE [d EXCEPT !.firstUnchanged = (d.startSha = github.branch),
                         !.pc = IF d.flow = "issue" THEN "end" ELSE "usage"]
  /\ UNCHANGED <<owner, github, storeVars, costVars, concVars, eventVars>>

\* handleNoChangesGenerated: the notice that no changes could be determined
handleNoChangesGenerated(comments) == comments \cup {"nochanges"}

\* (the variant that never sees the branch unchanged)
StillNoChangesNever(startSha, endSha) == FALSE

\* startBranch.data.commit.sha === endBranch.data.commit.sha
StillNoChanges(startSha, endSha) == startSha = endSha

\* The getBranch that reads endBranch and the comparison: the issue flow throws
\* when the branch is still where it started, the review flow posts the notice
CheckEnd(apiOk, noticeOk) ==
  /\ d.pc = "end"
  /\ LET seen == [d EXCEPT !.endUnchanged = (d.startSha = github.branch)]
     IN d' = IF ~apiOk THEN Throw(d)
             ELSE IF d.flow = "issue"
               THEN (IF StillNoChanges(d.startSha, github.branch) THEN Throw(seen)
                     ELSE [seen EXCEPT !.pc = "createPR"])
             ELSE IF d.startSha = github.branch
               THEN (IF noticeOk
                       THEN [seen EXCEPT !.comments = handleNoChangesGenerated(@),
                                         !.pc = "usage"]
                       ELSE Throw(seen))
             ELSE [seen EXCEPT !.pc = "usage"]
  /\ UNCHANGED <<owner, github, storeVars, costVars, concVars, eventVars>>

\* createPullRequest: pulls.create, then createPrLinkedComment
CreatePullRequest(outcome) ==
  /\ d.flow = "issue" /\ d.pc = "createPR"
  /\ IF outcome = "createFails"
       THEN d' = Throw(d) /\ UNCHANGED github
     ELSE /\ github' = [github EXCEPT !.prs = @ + 1]
          /\ d' = IF outcome = "commentFails"
                    THEN Throw([d EXCEPT !.prNumber = github.prs + 1])
                    ELSE [d EXCEPT !.prNumber = github.prs + 1,
                                   !.comments = @ \cup {"pr-linked"},
                                   !.pc = "usage"]
  /\ UNCHANGED <<owner, storeVars, costVars, concVars, eventVars>>

\* (the variant without the try around the usage append)
AfterUsageRethrow(flow, dbOk) ==
  IF ~dbOk THEN "catch" ELSE IF flow = "issue" THEN "done" ELSE "reset"

\* Where the handler goes after its usage try block: the catch only logs
AfterUsage(flow, dbOk) == IF flow = "issue" THEN "done" ELSE "reset"

\* The "Record PR Usage" / "Record Session Usage" try blocks: a failure is
\* logged and the handler goes on
RecordUsage(dbOk, lookupOk) ==
  /\ d.pc = "usage"
  /\ IF d.flow = "issue"
       THEN /\ installations' =
                 IF dbOk
                   THEN addPullRequestToUsage(installations, InstallationId,
                                              d.renewalDate, d.prNumber, d.sessionCost)
                   ELSE installations
            /\ d' = [d EXCEPT !.usageAppends = IF dbOk THEN @ + 1 ELSE @,
                              !.usageFailed = ~dbOk,
                              !.pc = AfterUsage(d.flow, dbOk)]
       ELSE /\ installations' =
                 IF dbOk
                   THEN addSessionToPullRequest(
                          installations, InstallationId,
                          getInstallationFromOwnerKey(owner, lookupOk),
                          d.prNumber, d.sessionCost)
                   ELSE installations
            /\ d' = [d EXCEPT !.usageAppends = IF dbOk THEN @ + 1 ELSE @,
                              !.renewalDate =
                                 IF dbOk THEN getInstallationFromOwnerKey(owner, lookupOk)
                                 ELSE @,
                              !.usageFailed = ~dbOk,
                              !.pc = AfterUsage(d.flow, dbOk)]
  /\ UNCHANGED <<owner, github, promotionUsers, lastOp, opCount, costVars, concVars, eventVars>>

\* resetReviewRequest
ResetReviewRequest(apiOk) ==
  /\ d.flow = "review" /\ d.pc = "reset"
  /\ d' = IF apiOk
            THEN [d EXCEPT !.resetCalls = @ + 1, !.reviewReset = TRUE, !.pc = "done"]
            ELSE Throw([d EXCEPT !.resetCalls = @ + 1])
  /\ UNCHANGED <<owner, github, storeVars, costVars, concVars, eventVars>>

\* (the variant without the try inside handleIssueError)
AfterErrorHandlerRaise(fail) == IF fail = "none" THEN "done" ELSE "raised"

\* Where the delivery is after handleIssueError: its own catch only logs
AfterErrorHandler(fail) == "done"

\* The catch of handleIssuesLabeled: handleIssueError posts the apology and
\* removes the label; a failure of either is caught and logged
HandleIssueError(fail) ==
  /\ d.flow = "issue" /\ d.pc = "catch"
  /\ d' = [d EXCEPT !.errorHandlerCalls = @ + 1,
                    !.secondaryFailure = fail,
                    !.comments = IF fail = "comment" THEN @ ELSE @ \cup {"error"},
                    !.labelRemoved = IF fail = "none" THEN TRUE ELSE @,
                    !.pc = AfterErrorHandler(fail)]
  /\ UNCHANGED <<owner, github, storeVars, costVars, concVars, eventVars>>

\* The catch of handlePullRequestReviewSubmitted: console.error only
ReviewError ==
  /\ d.flow = "review" /\ d.pc = "catch"
  /\ d' = [d EXCEPT !.pc = "done"]
  /\ UNCHANGED <<owner, github, storeVars, costVars, concVars, eventVars>>

Init ==
  /\ owner \in Owners
  /\ github = [branch |-> 0, prs |-> 0, reviews |-> 0]
  /\ d = NoDelivery
  /\ StoreIdle
  /\ CostIdle
  /\ ConcIdle
  /\ EventIdle

Next ==
  \/ IssuesLabeled(MaxWork)
  \/ \E dbOk, lookupOk, commentOk, labelOk \in BOOLEAN :
       CheckQuotaAndNotify(dbOk, lookupOk, commentOk, labelOk)
  \/ \E fail \in {"none", "comment", "branch"} : PrepareBranch(fail)
  \/ \E n \in 1..github.prs, actionable, apiOk \in BOOLEAN :
       PullRequestReviewSubmitted(n, actionable, apiOk)
  \/ \E o \in JobOutcomes : RunCloudRunJob(o)
  \/ \E apiOk \in BOOLEAN : CheckMid(apiOk)
  \/ \E apiOk, noticeOk \in BOOLEAN : CheckEnd(apiOk, noticeOk)
  \/ \E o \in {"ok", "createFails", "commentFails"} : CreatePullRequest(o)
  \/ \E dbOk, lookupOk \in BOOLEAN : RecordUsage(dbOk, lookupOk)
  \/ \E apiOk \in BOOLEAN : ResetReviewRequest(apiOk)
  \/ \E fail \in {"none", "comment", "label"} : HandleIssueError(fail)
  \/ ReviewError

Spec == Init /\ [][Next]_vars

\* The deliveries of an account whose marketplace plan has a price that is not
\* a key of PRICE_LIMITS
InitPlan ==
  /\ owner = "oddco"
  /\ github = [branch |-> 0, prs |-> 0, reviews |-> 0]
  /\ d = NoDelivery
  /\ StoreIdle
  /\ CostIdle
  /\ ConcIdle
  /\ EventIdle

SpecPlan == InitPlan /\ [][Next]_vars

\* Sequential issues.labeled deliveries for the subscriber while every external
\* call succeeds: the runs that fill a billing cycle up to its quota
InitQuota ==
  /\ owner = "subco"
  /\ github = [branch |-> 0, prs |-> 0, reviews |-> 0]
  /\ d = NoDelivery
  /\ StoreIdle
  /\ CostIdle
  /\ ConcIdle
  /\ EventIdle

NextQuota ==
  \/ IssuesLabeled(MaxQuotaPrs)
  \/ CheckQuotaAndNotify(TRUE, TRUE, TRUE, TRUE)
  \/ PrepareBranch("none")
  \/ \E o \in JobReturns : RunCloudRunJob(o)
  \/ CheckMid(TRUE)
  \/ CheckEnd(TRUE, TRUE)
  \/ CreatePullRequest("ok")
  \/ RecordUsage(TRUE, TRUE)
  \/ HandleIssueError("none")

SpecQuota == InitQuota /\ [][NextQuota]_vars

----------------------------------------------------------------------------
(* The usage store under concurrent webhook deliveries.  Every await of     *)
(* clients/mongodb.ts is a point where another delivery's call can run.    *)
(* One MongoDB command on one document is atomic; the upsert of            *)
(* findOneAndUpdate is a query followed, when nothing matched, by an       *)
(* insert, and the "installations" collection has no unique index on       *)
(* {installationId, renewalDate} (no createIndex anywhere in the program), *)
(* so two upserts that both matched nothing both insert.                   *)

MaxConcOps == 3

\* The deliveries that call the store at the same time
Clients == {1, 2}

\* The cycle key both deliveries resolve for the installation
ConcKey == "2025-06-01"

StoreCalls == {"getInstallation", "addPullRequestToUsage", "addSessionToPullRequest"}

\* The session cost of each delivery
ClientCost(p) == IF p = 1 THEN 10 ELSE 25

NoCall == [op |-> "none", pc |-> "idle", prNumber |-> 0, cost |-> 0, read |-> <<>>]

\* Where a call goes once getInstallation has returned its document
AfterGetInstallation(op) == IF op = "getInstallation" THEN "done" ELSE "write"

\* A delivery calls the store
ClientStart(p, op, prNumber) ==
  /\ opCount < MaxConcOps
  /\ clients[p].pc \in {"idle", "done"}
  /\ clients' = [clients EXCEPT ![p] =
        [NoCall EXCEPT !.op = op, !.pc = "find", !.prNumber = prNumber,
                       !.cost = ClientCost(p)]]
  /\ opCount' = opCount + 1
  /\ UNCHANGED <<installations, promotionUsers, lastOp, costVars, handlerVars, eventVars>>

\* getInstallation's findOneAndUpdate: the query and, on a match, the $set and
\* the document returned
ClientFind(p) ==
  /\ clients[p].pc = "find"
  /\ LET i == FindInstallation(installations, InstallationId, ConcKey)
     IN IF i = 0
          THEN /\ clients' = [clients EXCEPT ![p].pc = "insert"]
               /\ UNCHANGED installations
          ELSE /\ installations' =
                    [installations EXCEPT ![i] =
                       getInstallationSet(installations[i], InstallationId, ConcKey)]
               /\ clients' = [clients EXCEPT
                     ![p].read = installations[i].pullRequests,
                     ![p].pc = AfterGetInstallation(clients[p].op)]
  /\ UNCHANGED <<promotionUsers, lastOp, opCount, costVars, handlerVars, eventVars>>

\* getInstallation's findOneAndUpdate: the insert of an upsert that matched nothing
ClientInsert(p) ==
  /\ clients[p].pc = "insert"
  /\ installations' = Append(installations, NewInstallation(InstallationId, ConcKey))
  /\ clients' = [clients EXCEPT
        ![p].read = NewInstallation(InstallationId, ConcKey).pullRequests,
        ![p].pc = AfterGetInstallation(clients[p].op)]
  /\ UNCHANGED <<promotionUsers, lastOp, opCount, costVars, handlerVars, eventVars>>

\* The updateOne of addPullRequestToUsage / addSessionToPullRequest: $set of the
\* list built from the document read before
ClientWrite(p) ==
  /\ clients[p].pc = "write"
  /\ installations' =
       IF clients[p].op = "addPullRequestToUsage"
         THEN UpdatePullRequests(installations, InstallationId, ConcKey,
                WithNewPr(clients[p].read, clients[p].prNumber, clients[p].cost), 0)
         ELSE UpdatePullRequests(installations, InstallationId, ConcKey,
                WithSession(clients[p].read, clients[p].prNumber, clients[p].cost),
                clients[p].cost)
  /\ clients' = [clients EXCEPT ![p].pc = "done"]
  /\ UNCHANGED <<promotionUsers, lastOp, opCount, costVars, handlerVars, eventVars>>

InitConc ==
  /\ StoreIdle
  /\ CostIdle
  /\ HandlerIdle
  /\ clients = [p \in Clients |-> NoCall]
  /\ EventIdle

NextConc ==
  \/ \E p \in Clients, op \in StoreCalls, n \in PrNumbers : ClientStart(p, op, n)
  \/ \E p \in Clients : ClientFind(p)
  \/ \E p \in Clients : ClientInsert(p)
  \/ \E p \in Clients : ClientWrite(p)

SpecConc == InitConc /\ [][NextConc]_vars

----------------------------------------------------------------------------
(* The promotion cohort under concurrent deliveries.  The store offers      *)
(* findPromotionUser, getPromotionCount and addPromotionUser as separate    *)
(* calls; the resolution step that uses them (registered already, else      *)
(* register while the cohort has fewer than 100 members) is taken from the  *)
(* specification of the entitlement resolver.                               *)

MaxRegistrations == 3

\* The size the cohort is bounded to
PromotionLimit == 100

\* The accounts that ask for the promotion
Applicants == {"freeco", "newco", "user1"}

\* The cohort with n members
Cohort(n) == [i \in 1..n |-> "user" \o ToString(i)]

NoRegistration == [pc |-> "idle", login |-> "", found |-> FALSE, count |-> 0]

\* The resolver's promotion step: where it goes after each store call
PromotionStep(pc, found, count) ==
  CASE pc = "find" -> IF found THEN "done" ELSE "count"
    [] pc = "count" -> IF count < PromotionLimit THEN "add" ELSE "done"
    [] OTHER -> "done"

\* A delivery of an account without enterprise status or subscription reaches
\* the promotion step
PromoStart(p, login) ==
  /\ opCount < MaxRegistrations
  /\ clients[p].pc \in {"idle", "done"}
  /\ clients' = [clients EXCEPT ![p] =
                   [NoRegistration EXCEPT !.pc = "find", !.login = login]]
  /\ opCount' = opCount + 1
  /\ UNCHANGED <<installations, promotionUsers, lastOp, costVars, handlerVars, eventVars>>

\* findPromotionUser
PromoFind(p) ==
  /\ clients[p].pc = "find"
  /\ clients' = [clients EXCEPT
        ![p].found = findPromotionUser(promotionUsers, clients[p].login),
        ![p].pc = PromotionStep("find",
                    findPromotionUser(promotionUsers, clients[p].login), 0)]
  /\ UNCHANGED <<storeVars, costVars, handlerVars, eventVars>>

\* getPromotionCount
PromoCount(p) ==
  /\ clients[p].pc = "count"
  /\ clients' = [clients EXCEPT
        ![p].count = getPromotionCount(promotionUsers),
        ![p].pc = PromotionStep("count", FALSE, getPromotionCount(promotionUsers))]
  /\ UNCHANGED <<storeVars, costVars, handlerVars, eventVars>>

\* addPromotionUser
PromoAdd(p) ==
  /\ clients[p].pc = "add"
  /\ promotionUsers' = addPromotionUser(promotionUsers, clients[p].login)
  /\ clients' = [clients EXCEPT ![p].pc = PromotionStep("add", FALSE, 0)]
  /\ UNCHANGED <<installations, lastOp, opCount, costVars, handlerVars, eventVars>>

InitPromo ==
  /\ installations = <<>>
  /\ promotionUsers \in {Cohort(PromotionLimit - 2), Cohort(PromotionLimit - 1)}
  /\ lastOp = NoOp
  /\ opCount = 0
  /\ CostIdle
  /\ HandlerIdle
  /\ clients = [p \in Clients |-> NoRegistration]
  /\ EventIdle

NextPromo ==
  \/ \E p \in Clients, login \in Applicants : PromoStart(p, login)
  \/ \E p \in Clients : PromoFind(p)
  \/ \E p \in Clients : PromoCount(p)
  \/ \E p \in Clients : PromoAdd(p)

SpecPromo == InitPromo /\ [][NextPromo]_vars

----------------------------------------------------------------------------
(* generateReviewPrompt of lib/prompt.ts and the review handler's use of it *)

\* payload.review.body: null, empty, blanks only, or a text
ReviewBodies == {"<null>", "", "  ", "Overall feedback."}

\* !reviewBody
Falsy(text) == text \in {"<null>", ""}

\* Review comments as GraphQL returns them (line 0: the comment has no line)
CommentOnLine ==
  [path |-> "src/a.ts", line |-> 10, startLine |-> 0, bodyText |-> "Rename this."]
CommentOnRange ==
  [path |-> "src/b.ts", line |-> 12, startLine |-> 8, bodyText |-> "Extract a function."]
CommentOnFile ==
  [path |-> "README.md", line |-> 0, startLine |-> 0, bodyText |-> ""]

\* payload.review.node_id
ReviewNodeId == "review-node-id"

\* resp.repository.pullRequest.reviews.nodes
ReviewNodes ==
  {<<>>,
   <<[id |-> "review-node-id-other", comments |-> <<CommentOnLine>>]>>,
   <<[id |-> ReviewNodeId, comments |-> <<>>]>>,
   <<[id |-> ReviewNodeId, comments |-> <<CommentOnFile>>]>>,
   <<[id |-> "review-node-id-other", comments |-> <<>>],
     [id |-> ReviewNodeId, comments |-> <<CommentOnLine, CommentOnRange>>]>>}

Reviews == [body : ReviewBodies, nodes : ReviewNodes]

\* Array.prototype.join
RECURSIVE Join(_, _)
Join(strings, separator) ==
  IF strings = <<>> THEN ""
  ELSE IF Len(strings) = 1 THEN strings[1]
  ELSE strings[1] \o separator \o Join(Tail(strings), separator)

\* The string one comment is turned into
CommentString(comment, i) ==
  Join(<<ToString(i) \o ". file: " \o comment.path>>
         \o (IF comment.line # 0
               THEN <<IF comment.startLine # 0 /\ comment.startLine # comment.line
                        THEN "lines: " \o ToString(comment.startLine) \o "-"
                               \o ToString(comment.line)
                        ELSE "line: " \o ToString(comment.line)>>
               ELSE <<>>)
         \o <<"comment: " \o comment.bodyText>>,
       "; ")

\* nodes.find(review => review.id === node_id)?.comments.nodes.map(...).join("\n"):
\* undefined when the review is not among the nodes
ReviewComments(nodes, nodeId) ==
  LET hits == {i \in 1..Len(nodes) : nodes[i].id = nodeId}
      first == CHOOSE i \in hits : \A j \in hits : i <= j
  IN IF hits = {} THEN [defined |-> FALSE, text |-> ""]
     ELSE [defined |-> TRUE,
           text |-> Join([i \in 1..Len(nodes[first].comments) |->
                            CommentString(nodes[first].comments[i], i)], "\n")]

\* (the variant that looks at the body only)
generateReviewPromptBodyOnly(reviewBody, nodes, nodeId) ==
  IF Falsy(reviewBody) THEN [null |-> TRUE, prompt |-> ""]
  ELSE [null |-> FALSE, prompt |-> "Overall review summary:\n" \o reviewBody]

\* generateReviewPrompt: null, or the prompt (without the fixed system prompt)
generateReviewPrompt(reviewBody, nodes, nodeId) ==
  LET comments == ReviewComments(nodes, nodeId)
      hasComments == comments.defined /\ comments.text # ""
  IN IF Falsy(reviewBody) /\ ~hasComments
       THEN [null |-> TRUE, prompt |-> ""]
       ELSE [null |-> FALSE,
             prompt |->
               (IF ~Falsy(reviewBody)
                  THEN "\n\nOverall review summary:\n" \o reviewBody ELSE "")
               \o (IF hasComments
                     THEN "\n\nSpecific comments on files:\n" \o comments.text
                     ELSE "")]

\* pull_request_review.submitted carrying the review: the handler skips the job
\* when no prompt was generated
ReviewSubmitted(apiOk) ==
  PullRequestReviewSubmitted(
    github.prs,
    ~generateReviewPrompt(review.body, review.nodes, ReviewNodeId).null,
    apiOk)

\* A repository with one PR of the app, on a branch one commit ahead
InitPrompt ==
  /\ owner = "subco"
  /\ github = [branch |-> DefaultSha + 1, prs |-> 1, reviews |-> 0]
  /\ d = NoDelivery
  /\ StoreIdle
  /\ CostIdle
  /\ ConcIdle
  /\ review \in Reviews
  /\ issues = <<>>
  /\ lastClose = <<>>
  /\ labeled = <<>>

NextPrompt ==
  \/ \E apiOk \in BOOLEAN : ReviewSubmitted(apiOk)
  \/ \E o \in JobOutcomes : RunCloudRunJob(o)
  \/ \E apiOk \in BOOLEAN : CheckMid(apiOk)
  \/ \E apiOk, noticeOk \in BOOLEAN : CheckEnd(apiOk, noticeOk)
  \/ \E dbOk, lookupOk \in BOOLEAN : RecordUsage(dbOk, lookupOk)
  \/ \E apiOk \in BOOLEAN : ResetReviewRequest(apiOk)
  \/ ReviewError

SpecPrompt == InitPrompt /\ [][NextPrompt]_vars

----------------------------------------------------------------------------
(* pull_request.closed: closeIssueForMergedPr and its handler *)

MaxCloses == 2

\* Branch names, one character per element
\* "ai-jr-dev/"
BranchPrefix ==
  <<"a", "i", "-", "j", "r", "-", "d", "e", "v", "/">>

\* "ai-jr-dev/12-fix": the convention, issue 12
RefIssue12 ==
  <<"a", "i", "-", "j", "r", "-", "d", "e", "v", "/", "1", "2", "-", "f", "i", "x">>

\* "ai-jr-dev/7-a": the convention, issue 7
RefIssue7 ==
  <<"a", "i", "-", "j", "r", "-", "d", "e", "v", "/", "7", "-", "a">>

\* "ai-jr-dev/007-a": the convention with leading zeros, issue 7
RefLeadingZeros ==
  <<"a", "i", "-", "j", "r", "-", "d", "e", "v", "/", "0", "0", "7", "-", "a">>

\* "ai-jr-dev/99-x": the convention, but the repository has no issue 99
RefGone ==
  <<"a", "i", "-", "j", "r", "-", "d", "e", "v", "/", "9", "9", "-", "x">>

\* "ai-jr-dev/12": no dash after the number
RefNoDash ==
  <<"a", "i", "-", "j", "r", "-", "d", "e", "v", "/", "1", "2">>

\* "ai-jr-dev/-fix": no number
RefNoNumber ==
  <<"a", "i", "-", "j", "r", "-", "d", "e", "v", "/", "-", "f", "i", "x">>

\* "ai-jr-dev/1x-2-": a letter after the number
RefLetterAfterNumber ==
  <<"a", "i", "-", "j", "r", "-", "d", "e", "v", "/", "1", "x", "-", "2", "-">>

\* "feature/12-fix": another prefix
RefOtherPrefix ==
  <<"f", "e", "a", "t", "u", "r", "e", "/", "1", "2", "-", "f", "i", "x">>

\* "x/ai-jr-dev/12-fix": the prefix not at the start
RefPrefixInside ==
  <<"x", "/", "a", "i", "-", "j", "r", "-", "d", "e", "v", "/", "1", "2", "-", "f", "i", "x">>

HeadRefs ==
  {RefIssue12, RefIssue7, RefLeadingZeros, RefGone, RefNoDash, RefNoNumber, RefLetterAfterNumber, RefOtherPrefix, RefPrefixInside}

\* \d
Digits == {"0", "1", "2", "3", "4", "5", "6", "7", "8", "9"}

DigitValue(c) ==
  CASE c = "0" -> 0 [] c = "1" -> 1 [] c = "2" -> 2 [] c = "3" -> 3 [] c = "4" -> 4
    [] c = "5" -> 5 [] c = "6" -> 6 [] c = "7" -> 7 [] c = "8" -> 8 [] c = "9" -> 9

\* parseInt(digits, 10)
RECURSIVE parseInt(_)
parseInt(digits) ==
  IF digits = <<>> THEN 0
  ELSE 10 * parseInt(SubSeq(digits, 1, Len(digits) - 1))
         + DigitValue(digits[Len(digits)])

\* The end of the longest run of digits of ref that starts after position from
DigitRunEnd(ref, from) ==
  CHOOSE k \in from..Len(ref) :
    /\ \A i \in (from + 1)..k : ref[i] \in Digits
    /\ k = Len(ref) \/ ref[k + 1] \notin Digits

\* (the match without the dash after the number)
MatchIssueBranchNoDash(ref) ==
  LET n == Len(BranchPrefix)
      hasPrefix == Len(ref) >= n /\ SubSeq(ref, 1, n) = BranchPrefix
      k == DigitRunEnd(ref, n)
  IN IF hasPrefix /\ k > n
       THEN [matched |-> TRUE, digits |-> SubSeq(ref, n + 1, k)]
       ELSE [matched |-> FALSE, digits |-> <<>>]

\* branchName.match(/^ai-jr-dev\/(\d+)-/): the digits can only be the whole run,
\* a shorter run is followed by a digit and not by the dash
MatchIssueBranch(ref) ==
  LET n == Len(BranchPrefix)
      hasPrefix == Len(ref) >= n /\ SubSeq(ref, 1, n) = BranchPrefix
      k == DigitRunEnd(ref, n)
  IN IF hasPrefix /\ k > n /\ k < Len(ref) /\ ref[k + 1] = "-"
       THEN [matched |-> TRUE, digits |-> SubSeq(ref, n + 1, k)]
       ELSE [matched |-> FALSE, digits |-> <<>>]

\* The issues of the repository
IssueNumbers == {7, 12}

OpenIssues == [n \in IssueNumbers |-> [state |-> "open", comments |-> <<>>]]

\* octokit.rest.issues.createComment; fails for an issue that does not exist
IssueCommented(iss, issueNumber, body) ==
  [iss EXCEPT ![issueNumber].comments = Append(@, body)]

\* octokit.rest.issues.update({state: "closed"})
IssueClosed(iss, issueNumber) ==
  [iss EXCEPT ![issueNumber].state = "closed"]

\* closeIssueForMergedPr: the issues after the call
closeIssueForMergedPr(iss, ref, commentOk, updateOk, fallbackOk) ==
  LET match == MatchIssueBranch(ref)
      issueNumber == parseInt(match.digits)
      exists == issueNumber \in DOMAIN iss
  IN IF ~match.matched THEN iss
     ELSE IF exists /\ commentOk
       THEN IF updateOk
              THEN IssueClosed(IssueCommented(iss, issueNumber, "merged"), issueNumber)
              ELSE IF fallbackOk
                THEN IssueCommented(IssueCommented(iss, issueNumber, "merged"),
                                    issueNumber, "close manually")
                ELSE IssueCommented(iss, issueNumber, "merged")
       ELSE IF exists /\ fallbackOk
         THEN IssueCommented(iss, issueNumber, "close manually")
         ELSE iss

\* handlePullRequestClosed
PullRequestClosed(ref, hasInstallation, merged, isAppPr, hasWatchedLabel, commentOk, updateOk, fallbackOk) ==
  LET called == hasInstallation /\ merged /\ (isAppPr \/ hasWatchedLabel)
  IN /\ opCount < MaxCloses
     /\ opCount' = opCount + 1
     /\ issues' = IF called
                    THEN closeIssueForMergedPr(issues, ref, commentOk, updateOk,
                                               fallbackOk)
                    ELSE issues
     /\ lastClose' = [ref |-> ref, called |-> called]
     /\ UNCHANGED <<installations, promotionUsers, lastOp, log, llmReply, costVars,
                    handlerVars, concVars, review, labeled>>

InitClose ==
  /\ StoreIdle
  /\ CostIdle
  /\ owner = "subco"
  /\ github = [branch |-> DefaultSha, prs |-> 1, reviews |-> 0]
  /\ d = NoDelivery
  /\ ConcIdle
  /\ review = <<>>
  /\ issues = OpenIssues
  /\ lastClose = [ref |-> <<>>, called |-> FALSE]
  /\ labeled = <<>>

NextClose ==
  \E ref \in HeadRefs :
    \E hasInstallation, merged, isAppPr, hasWatchedLabel \in BOOLEAN :
      \E commentOk, updateOk, fallbackOk \in BOOLEAN :
        PullRequestClosed(ref, hasInstallation, merged, isAppPr, hasWatchedLabel,
                          commentOk, updateOk, fallbackOk)

SpecClose == InitClose /\ [][NextClose]_vars

----------------------------------------------------------------------------
(* The branch name createBranch builds for an issue, and the way back from  *)
(* it in closeIssueForMergedPr                                              *)

\* Issue titles, one character per element
\* "Fix bug": two words
TitleWords ==
  <<"F", "i", "x", " ", "b", "u", "g">>

\* "2 fast": a title that starts with a digit
TitleLeadingDigit ==
  <<"2", " ", "f", "a", "s", "t">>

\* "": an empty title
TitleEmpty ==
  <<>>

\* "!?": a title of symbols only
TitleSymbols ==
  <<"!", "?">>

\* " Lead": a title that starts with a blank
TitleLeadingBlank ==
  <<" ", "L", "e", "a", "d">>

\* "7": a title that is a number
TitleNumber ==
  <<"7">>

\* "Add \t X/Y-z.": blanks in a run, a slash, a dash and a dot
TitleMixed ==
  <<"A", "d", "d", " ", "\t", " ", "X", "/", "Y", "-", "z", ".">>

IssueTitles ==
  {TitleWords, TitleLeadingDigit, TitleEmpty, TitleSymbols, TitleLeadingBlank, TitleNumber, TitleMixed}

\* payload.issue.number
LabeledNumbers == {7, 12, 120}

UpperCase ==
  <<"A", "B", "C", "D", "E", "F", "G", "H", "I", "J", "K", "L", "M">>
    \o <<"N", "O", "P", "Q", "R", "S", "T", "U", "V", "W", "X", "Y", "Z">>

LowerCase ==
  <<"a", "b", "c", "d", "e", "f", "g", "h", "i", "j", "k", "l", "m">>
    \o <<"n", "o", "p", "q", "r", "s", "t", "u", "v", "w", "x", "y", "z">>

\* String.prototype.toLowerCase, one character
toLowerCase(c) ==
  IF \E i \in 1..Len(UpperCase) : UpperCase[i] = c
    THEN LowerCase[CHOOSE i \in 1..Len(UpperCase) : UpperCase[i] = c]
    ELSE c

\* \s
Whitespace == {" ", "\t"}

\* .replace(/\s+/g, "-"): every run of whitespace becomes one dash
RECURSIVE DropWhitespace(_)
DropWhitespace(chars) ==
  IF chars # <<>> /\ Head(chars) \in Whitespace THEN DropWhitespace(Tail(chars))
  ELSE chars

RECURSIVE ReplaceWhitespace(_)
ReplaceWhitespace(chars) ==
  IF chars = <<>> THEN <<>>
  ELSE IF Head(chars) \in Whitespace
    THEN <<"-">> \o ReplaceWhitespace(DropWhitespace(chars))
  ELSE <<Head(chars)>> \o ReplaceWhitespace(Tail(chars))

\* [a-z0-9-]
KebabChars == {LowerCase[i] : i \in 1..Len(LowerCase)} \cup Digits \cup {"-"}

\* kebabCase of utilities.ts
kebabCase(sentence) ==
  SelectSeq(ReplaceWhitespace([i \in 1..Len(sentence) |-> toLowerCase(sentence[i])]),
            LAMBDA c : c \in KebabChars)

\* Number.prototype.toString of a non-negative integer, in a template literal
RECURSIVE NumberToString(_)
NumberToString(n) ==
  IF n < 10 THEN <<CHOOSE c \in Digits : DigitValue(c) = n>>
  ELSE NumberToString(n \div 10) \o <<CHOOSE c \in Digits : DigitValue(c) = n % 10>>

\* (the variant without the dash between number and title)
branchNameNoDash(number, title) ==
  BranchPrefix \o NumberToString(number) \o kebabCase(title)

\* `ai-jr-dev/${payload.issue.number}-${kebabCase(payload.issue.title)}`
branchName(number, title) ==
  BranchPrefix \o NumberToString(number) \o <<"-">> \o kebabCase(title)

\* createBranch: the name it returns for the labeled issue
CreateBranchName ==
  /\ labeled.branchName = <<>>
  /\ labeled' = [labeled EXCEPT !.branchName = branchName(labeled.number, labeled.title)]
  /\ UNCHANGED <<storeVars, costVars, handlerVars, concVars, review, issues, lastClose>>

\* pull_request.closed for the merged PR of the app whose head is that branch
MergedPullRequestClosed(commentOk, updateOk, fallbackOk) ==
  /\ labeled.branchName # <<>>
  /\ PullRequestClosed(labeled.branchName, TRUE, TRUE, TRUE, FALSE,
                       commentOk, updateOk, fallbackOk)

InitBranch ==
  /\ StoreIdle
  /\ CostIdle
  /\ owner = "subco"
  /\ github = [branch |-> DefaultSha, prs |-> 1, reviews |-> 0]
  /\ d = NoDelivery
  /\ ConcIdle
  /\ review = <<>>
  /\ issues = OpenIssues
  /\ lastClose = [ref |-> <<>>, called |-> FALSE]
  /\ labeled \in [number : LabeledNumbers, title : IssueTitles, branchName : {<<>>}]

NextBranch ==
  \/ CreateBranchName
  \/ \E commentOk, updateOk, fallbackOk \in BOOLEAN :
       MergedPullRequestClosed(commentOk, updateOk, fallbackOk)

SpecBranch == InitBranch /\ [][NextBranch]_vars

----------------------------------------------------------------------------
(* Claims about the usage store, under SpecStore *)

\* The pullRequests of the stored document for (installationId, renewalDate)
StoredPullRequests(coll, installationId, renewalDate) ==
  IF FindInstallation(coll, installationId, renewalDate) = 0 THEN <<>>
  ELSE coll[FindInstallation(coll, installationId, renewalDate)].pullRequests

\* Number of promotionUsers documents for ownerLogin
PromotionRecords(coll, ownerLogin) ==
  Cardinality({i \in 1..Len(coll) : coll[i] = ownerLogin})

\* C4: getInstallation for an (installationId, renewalDate) that already has a
\* document returns that document with the pullRequests it had, and the stored
\* list is the one it had: a repeated call neither resets nor shrinks it.
C4_GetInstallationKeepsPullRequests ==
  (lastOp.name = "getInstallation" /\ lastOp.existed) =>
     /\ lastOp.returned = lastOp.before
     /\ StoredPullRequests(installations, lastOp.installationId, lastOp.renewalDate)
          = lastOp.before

\* getInstallation has just run on a document that held at least one PR
C4_Witness ==
  /\ lastOp.name = "getInstallation"
  /\ lastOp.existed
  /\ Len(lastOp.before) > 0

\* C5: in every state of the store, every PullRequestUsage's cost equals the sum
\* of the costs of its sessions.
C5_CostEqualsSessionSum ==
  \A i \in 1..Len(installations) :
    \A k \in 1..Len(installations[i].pullRequests) :
      installations[i].pullRequests[k].cost
        = SumSeq(installations[i].pullRequests[k].sessions)

\* C6: every addSessionToPullRequest with cost c against a PR that has an entry
\* grows that PR's cost by exactly c and its sessions by exactly one entry (so N
\* calls grow them by c1+...+cN and N).
C6_SessionAddsCostAndEntry ==
  [][ (lastOp'.name = "addSessionToPullRequest" /\ lastOp'.existed) =>
        LET before == StoredPullRequests(installations, lastOp'.installationId,
                                         lastOp'.renewalDate)
            after == StoredPullRequests(installations', lastOp'.installationId,
                                        lastOp'.renewalDate)
            k == FindPr(before, lastOp'.prNumber)
        IN /\ after[k].cost = before[k].cost + lastOp'.cost
           /\ Len(after[k].sessions) = Len(before[k].sessions) + 1 ]_vars

\* C10: after addPromotionUser(ownerLogin) the cohort holds exactly one record
\* for ownerLogin, and a call for an account that was registered already leaves
\* the cohort's count as it was.
C10_PromotionRegistrationIdempotent ==
  lastOp.name = "addPromotionUser" =>
     /\ PromotionRecords(promotionUsers, lastOp.login) = 1
     /\ lastOp.existed => getPromotionCount(promotionUsers) = lastOp.countBefore

\* addPromotionUser has just run for an account registered by an earlier call
C10_Witness ==
  /\ lastOp.name = "addPromotionUser"
  /\ lastOp.existed
  /\ PromotionRecords(promotionUsers, lastOp.login) = 1


\* s is an initial part of t
IsPrefix(s, t) ==
  /\ Len(s) <= Len(t)
  /\ \A i \in 1..Len(s) : s[i] = t[i]

\* Every PR of the old list is still at its place in the new one, with every
\* session it had
PullRequestsGrow(old, new) ==
  /\ Len(old) <= Len(new)
  /\ \A k \in 1..Len(old) :
       /\ new[k].number = old[k].number
       /\ IsPrefix(old[k].sessions, new[k].sessions)

\* C12: usage records are append-only: over every store operation (get-or-create,
\* appendPullRequest, appendSession) each record of the collection stays, under
\* its installation and cycle key, and keeps every PR entry and every session it
\* had; the pullRequests list and each sessions list only grow.
C12_AppendOnly ==
  [][\A i \in 1..Len(installations) :
       /\ i <= Len(installations')
       /\ installations'[i].installationId = installations[i].installationId
       /\ installations'[i].renewalDate = installations[i].renewalDate
       /\ PullRequestsGrow(installations[i].pullRequests,
                           installations'[i].pullRequests)]_vars

\* A session was appended to a PR of a record holding two PRs, and the PR now
\* has more than one session
C12_Witness ==
  /\ lastOp.name = "addSessionToPullRequest"
  /\ lastOp.existed
  /\ \E i \in 1..Len(installations) :
       /\ installations[i].renewalDate = lastOp.renewalDate
       /\ Len(installations[i].pullRequests) >= 2
       /\ \E k \in 1..Len(installations[i].pullRequests) :
            /\ installations[i].pullRequests[k].number = lastOp.prNumber
            /\ Len(installations[i].pullRequests[k].sessions) >= 2


\* The step is an addSessionToPullRequest for a PR number without an entry
SessionForMissingPr ==
  /\ opCount' = opCount + 1
  /\ lastOp'.name = "addSessionToPullRequest"
  /\ ~lastOp'.existed

\* C26 (as claimed): appendSession for a PR number that has no entry in the
\* record is a no-op: it leaves the record's pullRequests list unchanged.
C26_MissingPrIsNoOp ==
  [][SessionForMissingPr =>
       StoredPullRequests(installations', lastOp'.installationId, lastOp'.renewalDate)
         = StoredPullRequests(installations, lastOp'.installationId,
                              lastOp'.renewalDate)]_vars

\* C26 (amended): appendSession for a PR number that has no entry appends a new
\* entry for that PR, with the session's cost as its cost and the session as its
\* only session; the entries the record had are unchanged.
C26_MissingPrEntryCreated ==
  [][SessionForMissingPr =>
       StoredPullRequests(installations', lastOp'.installationId, lastOp'.renewalDate)
         = Append(StoredPullRequests(installations, lastOp'.installationId,
                                     lastOp'.renewalDate),
                  [number |-> lastOp'.prNumber, cost |-> lastOp'.cost,
                   sessions |-> <<lastOp'.cost>>])]_vars

\* A session was appended for a PR without an entry, beside an existing entry
C26_Witness ==
  /\ lastOp.name = "addSessionToPullRequest"
  /\ ~lastOp.existed
  /\ Len(StoredPullRequests(installations, lastOp.installationId,
                            lastOp.renewalDate)) >= 2

----------------------------------------------------------------------------
(* Claims about extractSessionCost, under SpecCost *)

\* C8: for a log with at least one cost marker, extractSessionCost returns the
\* session figure of the LAST marker of the log.
C8_LastMarkerWins ==
  (costState = "returned" /\ Matches(log) # {}) =>
     costResult = parseFloat(costPattern(log[costPatternExecLast(log)]))

\* C9: extractSessionCost never throws and returns a number >= 0; with no
\* marker in the log and an LLM fallback that errors, has no or empty content,
\* or returns text that is no number, it returns 0.
C9_NeverThrowsNonNegative ==
  /\ costState # "threw"
  /\ costState = "returned" =>
       /\ costResult >= 0
       /\ (/\ Matches(log) = {}
           /\ \/ llmReply \in {"<throws>", "<no content>"}
              \/ trim(llmReply) = ""
              \/ parseFloatIsNaN(trim(llmReply))) => costResult = 0

----------------------------------------------------------------------------
(* Claims about the webhook handlers, under Spec *)

\* C1: in both flows, once the branch SHA read after the first job run equals
\* the before-marker, the job is run a second time and never a third: from the
\* second run on the delivery has made exactly two Job Runner calls, whatever
\* that run did; no delivery makes more than two.
C1_RetryExactlyOnce ==
  /\ d.jobCalls <= 2
  /\ d.firstUnchanged =>
       IF d.pc = "run2" THEN d.jobCalls = 1 ELSE d.jobCalls = 2

\* A review delivery has ended whose first run left the branch unchanged and
\* whose second run threw
C1_Witness ==
  /\ d.flow = "review"
  /\ d.pc = "done"
  /\ d.firstUnchanged
  /\ d.job2 = "threw"
  /\ d.jobCalls = 2

\* C2: when the first Job Runner call of an issue-labeled delivery throws, no
\* second call is made, no pull request is created, and the delivery ends in
\* handleIssueError, which (unless its own GitHub calls fail) posts the apology
\* and removes the triggering label.
C2_NoRetryOnJobFailure ==
  (d.flow = "issue" /\ d.job1 = "threw") =>
     /\ d.jobCalls = 1
     /\ d.job2 = "none"
     /\ d.prNumber = 0
     /\ d.pc \in {"catch", "done"}
     /\ d.pc = "done" =>
          /\ d.errorHandlerCalls = 1
          /\ d.secondaryFailure = "none" =>
               ("error" \in d.comments /\ d.labelRemoved)

\* An issue delivery whose first job run threw has ended with the apology
\* posted and the label removed
C2_Witness ==
  /\ d.flow = "issue"
  /\ d.job1 = "threw"
  /\ d.pc = "done"
  /\ "error" \in d.comments
  /\ d.labelRemoved

\* C7: for an account on the enterprise allow-list the issue-labeled quota
\* gate never denies and never posts the quota-exceeded (or no-subscription)
\* notice, whatever usage is recorded.
C7_EnterpriseNeverDenied ==
  (owner \in EnterpriseAccounts /\ d.flow = "issue") =>
     /\ d.gate # "denied"
     /\ d.denial = "none"
     /\ "quota" \notin d.comments
     /\ "nosub" \notin d.comments

\* The enterprise account is admitted while its usage document holds at least
\* as many units as the largest limit of the price table
C7_Witness ==
  /\ owner \in EnterpriseAccounts
  /\ d.flow = "issue"
  /\ d.gate = "admitted"
  /\ prCount(StoredPullRequests(installations, InstallationId, "2100-01-01"))
       >= PRICE_LIMITS(2000).value

----------------------------------------------------------------------------
(* Claims about the quota boundary, under SpecQuota *)

\* The subscriber's usage document of the current cycle
CycleRecord ==
  StoredPullRequests(installations, InstallationId,
                     getSubscriptionDetails(owner, TRUE).renewalDate)

\* The gate has decided on the subscriber's delivery and the delivery has not
\* appended its own usage yet
GateDecided ==
  /\ d.flow = "issue"
  /\ d.gate # "pending"
  /\ d.denial # "nosub"
  /\ d.usageAppends = 0
  /\ ~getEnterpriseClient({owner})
  /\ getSubscriptionDetails(owner, TRUE).found

\* C3 as stated: the gate counts pull requests: it admits while fewer than the
\* monthly limit are recorded in the cycle and denies from then on.
C3_CountBoundary ==
  GateDecided =>
    (d.gate = "denied" <=>
       Len(CycleRecord) >= getSubscriptionDetails(owner, TRUE).monthlyPrLimit.value)

\* C3 as amended: when every PR recorded in the cycle cost more than $0 and at
\* most $0.25 (one unit each), the gate admits while fewer PRs than the monthly
\* limit are recorded and denies from then on.
C3_UnitBoundary ==
  (/\ GateDecided
   /\ \A k \in 1..Len(CycleRecord) :
        CycleRecord[k].cost > 0 /\ CycleRecord[k].cost <= UnitCost) =>
    (d.gate = "denied" <=>
       Len(CycleRecord) >= getSubscriptionDetails(owner, TRUE).monthlyPrLimit.value)

\* The delivery after the one that produced the limit-th one-unit PR is denied
C3_Witness ==
  /\ GateDecided
  /\ \A k \in 1..Len(CycleRecord) :
       CycleRecord[k].cost > 0 /\ CycleRecord[k].cost <= UnitCost
  /\ Len(CycleRecord) = getSubscriptionDetails(owner, TRUE).monthlyPrLimit.value
  /\ d.gate = "denied"
  /\ "quota" \in d.comments

----------------------------------------------------------------------------
(* Claims about the denied, failed and no-progress ends of a delivery,      *)
(* under Spec                                                               *)

\* The job ran twice and the handler then found the branch where it was before
\* the first run
NoProgress ==
  /\ d.jobCalls = 2
  /\ d.job2 = "returned"
  /\ d.endUnchanged

\* C14: when entitlement is denied for an issue-labeled event (no subscription
\* found, or quota exhausted) the handler halts: no working comment, no branch,
\* no job run, no pull request and no usage append in that delivery; and when the
\* delivery ended without the error handler, the notice of the denial is posted
\* and the label is removed (unless GitHub refused the removal, which the
\* no-subscription path logs and ignores).
C14_DeniedHaltsCleanly ==
  (d.flow = "issue" /\ d.gate = "denied") =>
    /\ d.pc \in {"done", "catch"}
    /\ "working" \notin d.comments
    /\ d.startSha = 0
    /\ d.jobCalls = 0
    /\ d.prNumber = 0
    /\ d.usageAppends = 0
    /\ (d.pc = "done" /\ d.errorHandlerCalls = 0) =>
         /\ d.denial \in d.comments
         /\ d.labelRemoved \/ d.labelFailed

\* A delivery was denied for its quota, with the notice posted and the label removed
C14_Witness ==
  /\ d.flow = "issue" /\ d.gate = "denied" /\ d.denial = "quota"
  /\ d.pc = "done"
  /\ "quota" \in d.comments
  /\ d.labelRemoved

\* C15: a metering failure never changes the user-visible outcome: when the usage
\* append throws after the pull request was created (issue flow) the error handler
\* is not invoked, no error comment is posted and the label stays; in the review
\* flow a failing session append is followed by the reset of the review request.
C15_MeteringFailureInvisible ==
  /\ (d.flow = "issue" /\ d.usageFailed) =>
       /\ d.pc = "done"
       /\ d.prNumber # 0
       /\ d.errorHandlerCalls = 0
       /\ "error" \notin d.comments
       /\ ~d.labelRemoved
  /\ (d.flow = "review" /\ d.usageFailed /\ d.pc # "reset") => d.resetCalls = 1

\* The session append of a review delivery failed and the review request was reset
C15_Witness ==
  /\ d.flow = "review"
  /\ d.usageFailed
  /\ d.reviewReset
  /\ d.pc = "done"

C17_NoProgressNoPullRequest ==
  (d.flow = "issue" /\ NoProgress) =>
    /\ d.pc \in {"catch", "done"}
    /\ d.prNumber = 0
    /\ d.usageAppends = 0

\* An issue delivery ended after two job runs that left the branch unchanged
C17_Witness ==
  /\ d.flow = "issue"
  /\ NoProgress
  /\ d.pc = "done"
  /\ d.errorHandlerCalls = 1

\* C18: when the job ran twice without changing the branch in the issue-labeled
\* flow, the notice is not the one posted for a job infrastructure failure, and
\* the triggering label is not removed.
C18_NoProgressNoticeDistinct ==
  (d.flow = "issue" /\ NoProgress /\ d.pc = "done") =>
    /\ "error" \notin d.comments
    /\ ~d.labelRemoved

\* C19: in the review flow, when the branch is still at the before-marker after
\* the retry, the no-changes notice is posted and the review request is not reset.
C19_NoProgressNoReset ==
  (d.flow = "review" /\ NoProgress /\ d.pc \in {"usage", "reset", "done"}
     /\ "nochanges" \in d.comments) =>
    /\ d.resetCalls = 0
    /\ ~d.reviewReset

\* C20: an account that is neither on the enterprise list nor subscribed, and is
\* in the promotion cohort or can join it (fewer than 100 members), is not
\* denied: its issue-labeled event is processed.
C20_PromotionAdmitted ==
  (/\ d.flow = "issue"
   /\ ~getEnterpriseClient({owner})
   /\ ~MarketplacePurchase(owner).found
   /\ \/ findPromotionUser(promotionUsers, owner)
      \/ getPromotionCount(promotionUsers) < 100)
    => d.gate # "denied"

\* C21: when the subscription-provider lookup fails with an error, entitlement
\* resolution does not fail: the outcome is the one of an account without a
\* subscription (the denial for a missing subscription), and once its notice is
\* posted the delivery ends without the error handler.
C21_LookupErrorIsNoSubscription ==
  (d.flow = "issue" /\ d.lookupFailed) =>
    /\ d.gate = "denied"
    /\ d.denial = "nosub"
    /\ "nosub" \in d.comments => (d.pc = "done" /\ d.errorHandlerCalls = 0)

\* The lookup failed for the subscriber, who got the missing-subscription notice
C21_Witness ==
  /\ d.flow = "issue"
  /\ owner = "subco"
  /\ d.lookupFailed
  /\ "nosub" \in d.comments
  /\ d.pc = "done"

\* C23: ensureBranch is idempotent: when the issue's branch already exists the
\* call leaves its commit SHA as it is.
C23_ExistingBranchReused ==
  [][(d.flow = "issue" /\ d.pc = "working" /\ d'.pc = "run1" /\ github.branch # 0)
       => github'.branch = github.branch]_vars

\* The number of sessions recorded for the PR in the record of a cycle
SessionCount(coll, renewalDate, prNumber) ==
  LET prs == StoredPullRequests(coll, InstallationId, renewalDate)
  IN IF FindPr(prs, prNumber) = 0 THEN 0
     ELSE Len(prs[FindPr(prs, prNumber)].sessions)

\* C25: each job execution attributed to a PR is recorded as its own session:
\* the usage append of a delivery adds one session per job run of the delivery.
C25_OneSessionPerJobRun ==
  [][(d.pc = "usage" /\ d'.usageAppends = d.usageAppends + 1)
       => SessionCount(installations', d'.renewalDate, d.prNumber)
            = SessionCount(installations, d'.renewalDate, d.prNumber) + d.jobCalls]_vars

\* C29: the before-marker is the target branch's SHA read before the first job
\* run, and the retry is decided by comparing the branch's SHA after the run with
\* that marker: the job runs a second time exactly when they are equal.
C29_ProgressAgainstBeforeMarker ==
  /\ d.pc = "run1" => (d.startSha # 0 /\ d.startSha = github.branch)
  /\ d.firstUnchanged <=> (d.pc = "run2" \/ d.jobCalls = 2)

\* A review delivery on a branch ahead of the default branch retried
C29_Witness ==
  /\ d.flow = "review"
  /\ d.startSha # DefaultSha
  /\ d.firstUnchanged
  /\ d.jobCalls = 2

\* The account is entitled to a job run: enterprise, or subscribed with quota left
Entitled ==
  LET subscription == getSubscriptionDetails(owner, TRUE)
  IN \/ getEnterpriseClient({owner})
     \/ /\ subscription.found
        /\ ~QuotaExceeded(
              prCount(StoredPullRequests(installations, InstallationId,
                                         subscription.renewalDate)),
              subscription.monthlyPrLimit)

\* C30: the entitlement gate precedes every job run, in the review flow as in the
\* issue flow: the job is never run for an account without entitlement or with
\* its quota for the cycle exhausted.
C30_GateBeforeEveryJobRun ==
  (d.jobCalls >= 1 /\ d.pc \in {"mid", "run2", "end", "createPR", "usage"})
    => Entitled

\* The issue flow alone keeps the gate before the job
IssueFlowGated ==
  (d.flow = "issue" /\ d.jobCalls >= 1
     /\ d.pc \in {"mid", "run2", "end", "createPR", "usage"}) => Entitled

\* C28: runCloudRunJob obtains the installation access token before it submits
\* the job: when the token call fails the job is not submitted, and a failure of
\* the token call or of the job is rethrown to the handler, which ends the
\* delivery in its catch.
C28_TokenBeforeJob ==
  /\ d.jobSubmits = IF d.jobFail = "token" THEN d.jobCalls - 1 ELSE d.jobCalls
  /\ d.jobFail # "none" =>
       /\ d.pc \in {"catch", "done"}
       /\ "threw" \in {d.job1, d.job2}
       /\ d.prNumber = 0 \/ d.flow = "review"
       /\ (d.flow = "issue" /\ d.pc = "done") => d.errorHandlerCalls = 1

\* The token call of the retry failed: one job was submitted in two calls
C28_Witness ==
  /\ d.jobFail = "token"
  /\ d.jobCalls = 2
  /\ d.jobSubmits = 1
  /\ d.pc = "done"

----------------------------------------------------------------------------
(* Claims about the usage store under concurrent deliveries, under SpecConc *)

\* The records stored for (installationId, renewalDate)
RecordsOf(installationId, renewalDate) ==
  {i \in 1..Len(installations) :
     /\ installations[i].installationId = installationId
     /\ installations[i].renewalDate = renewalDate}

\* C11: at most one InstallationUsage record exists per (installationId,
\* cycleKey) pair in every reachable state, also when the get-or-create calls of
\* two concurrent webhook deliveries for the same installation interleave.
C11_OneRecordPerCycle ==
  \A i, j \in 1..Len(installations) :
    (/\ installations[i].installationId = installations[j].installationId
     /\ installations[i].renewalDate = installations[j].renewalDate) => i = j

\* The entry a finished append of delivery p put into the record
EntryPresent(p) ==
  \E i \in RecordsOf(InstallationId, ConcKey) :
    \E k \in 1..Len(installations[i].pullRequests) :
      LET pr == installations[i].pullRequests[k]
      IN /\ pr.number = clients[p].prNumber
         /\ IF clients[p].op = "addPullRequestToUsage"
              THEN pr.cost = clients[p].cost
              ELSE \E n \in 1..Len(pr.sessions) : pr.sessions[n] = clients[p].cost

\* C13: each append is atomic: when two deliveries for the same installation and
\* cycle key run appendPullRequest (or appendSession) concurrently, in every
\* interleaving the entry of every finished append is present in the stored
\* record (no lost update).  Stated for the states with a single record, where
\* the appends of both deliveries address the same document.
C13_NoLostUpdate ==
  Cardinality(RecordsOf(InstallationId, ConcKey)) <= 1 =>
    \A p \in Clients :
      (clients[p].pc = "done" /\ clients[p].op # "getInstallation")
        => EntryPresent(p)

\* The distinct accounts of the promotion cohort
CohortAccounts == {promotionUsers[i] : i \in 1..Len(promotionUsers)}

\* C22: the promotion cohort never contains more than 100 distinct accounts, also
\* when several new accounts register concurrently while the cohort has 99
\* members.
C22_CohortBounded == Cardinality(CohortAccounts) <= PromotionLimit

----------------------------------------------------------------------------
(* Claims about the review prompt, under SpecPrompt *)

\* The review has no body
NoReviewBody == review.body \in {"<null>", ""}

\* The number of comments GraphQL returned for the review
ReviewCommentCount ==
  Cardinality({<<i, k>> \in (1..Len(review.nodes)) \X (1..2) :
                 /\ review.nodes[i].id = ReviewNodeId
                 /\ k <= Len(review.nodes[i].comments)})

----------------------------------------------------------------------------
(* Claims about the closed pull request, under SpecClose *)

\* The issue number a head branch encodes by the convention
\* 'ai-jr-dev/<number>-...', 0 when the branch does not follow it
ConventionIssue(ref) ==
  CASE ref = RefIssue12 -> 12
    [] ref = RefIssue7 -> 7
    [] ref = RefLeadingZeros -> 7
    [] ref = RefGone -> 99
    [] OTHER -> 0

\* C24: a closed pull request whose head branch does not match the convention
\* changes no issue (no comment, no update); when it matches, the only issue
\* that gets a comment or is closed is the one whose number the branch encodes,
\* and an issue is only ever closed after the merge comment on it.
C24_OnlyEncodedIssueTouched ==
  [][/\ \A n \in IssueNumbers :
          issues'[n] # issues[n]
            => (lastClose'.called /\ ConventionIssue(lastClose'.ref) = n)
     /\ \A n \in IssueNumbers :
          (issues[n].state = "open" /\ issues'[n].state = "closed")
            => issues'[n].comments = Append(issues[n].comments, "merged")]_vars

\* The merge of a PR on the branch of issue 12 closed issue 12 and left issue 7 alone
C24_Witness ==
  /\ lastClose.called
  /\ lastClose.ref = RefIssue12
  /\ issues[12] = [state |-> "closed", comments |-> <<"merged">>]
  /\ issues[7] = [state |-> "open", comments |-> <<>>]

----------------------------------------------------------------------------
(* Claims about when and under which key usage is written, under Spec *)

\* The issue flow is between the start of the handler and the return of its
\* last runCloudRunJob call
BeforeLastJobReturn ==
  d.flow = "issue" /\ d.pc \in {"gate", "working", "run1", "mid", "run2"}

\* C31 as stated: in the issue-labeled flow nothing is written to the usage
\* store between the start of the handler and the return of the last job run.
C31_NoWriteBeforeJobReturns ==
  [][BeforeLastJobReturn => installations' = installations]_vars

\* C31 as amended: between the start of the issue-labeled handler and the return
\* of the last job run the store changes at most by the gate's get-or-create
\* inserting the cycle's empty record; every existing record keeps its
\* pullRequests, and PR usage is written only after the last job run returned.
C31_UsageOnlyAfterJob ==
  [][/\ BeforeLastJobReturn =>
          /\ Len(installations') \in {Len(installations), Len(installations) + 1}
          /\ \A i \in 1..Len(installations) : installations'[i] = installations[i]
          /\ \A i \in 1..Len(installations') : i > Len(installations) =>
               installations'[i].pullRequests = <<>>
     /\ (/\ d.flow = "issue"
         /\ \E i \in 1..Len(installations') :
              installations'[i].pullRequests # <<>>
                /\ (i > Len(installations) \/ installations'[i] # installations[i]))
          => (/\ d.pc = "usage"
              /\ d.jobCalls >= 1
              /\ "threw" \notin {d.job1, d.job2})]_vars

\* The gate has inserted the cycle's record and the retry run has not returned
C31_Witness ==
  /\ d.flow = "issue"
  /\ d.pc = "run2"
  /\ Len(installations) = 1
  /\ installations[1].pullRequests = <<>>

----------------------------------------------------------------------------
(* Claims about the quota sum, under SpecQuota *)

\* ceil(cents / 25) as the least number of 25-cent units that cover the cost
UnitsOf(cents) ==
  CHOOSE u \in 0..(cents + 1) : 25 * u >= cents /\ (u = 0 \/ 25 * (u - 1) < cents)

\* The units the PRs of a record add up to
UsedUnits(prs) == SumSeq([k \in 1..Len(prs) |-> UnitsOf(prs[k].cost)])

\* C32: for a subscriber with monthly limit L the gate denies exactly when the
\* sum over the PRs recorded in the cycle's record of ceil(cost / 0.25) is at
\* least L, and admits otherwise.
C32_GateDeniesAtUnitSum ==
  GateDecided =>
    (d.gate = "denied" <=>
       UsedUnits(CycleRecord) >= getSubscriptionDetails(owner, TRUE).monthlyPrLimit.value)

\* The gate denied on the units of fewer PRs than the limit, and a PR that cost
\* less than a unit counted as one
C32_Witness ==
  /\ GateDecided
  /\ d.gate = "denied"
  /\ Len(CycleRecord) < getSubscriptionDetails(owner, TRUE).monthlyPrLimit.value
  /\ \E k \in 1..Len(CycleRecord) :
       CycleRecord[k].cost > 0 /\ CycleRecord[k].cost < UnitCost

----------------------------------------------------------------------------
(* Claims about the isolation of billing cycles, under SpecStore *)

\* The documents stored under a cycle key, in order
RecordsUnder(coll, renewalDate) ==
  SelectSeq(coll, LAMBDA doc : doc.renewalDate = renewalDate)

\* The count the quota gate computes when it checks under a cycle key
GateCount(coll, renewalDate) ==
  prCount(getInstallationResult(coll, InstallationId, renewalDate).pullRequests)

\* C33: getInstallation, addPullRequestToUsage and addSessionToPullRequest for a
\* cycle key leave every record of another cycle key unchanged, and with it the
\* count the gate would compute under that other key; under a key that has no
\* record yet the gate counts zero, whatever is recorded under other keys.
C33_CyclesIsolated ==
  [][/\ \A k1 \in CycleKeys :
          (lastOp'.name # "addPromotionUser" /\ lastOp'.renewalDate # k1) =>
            /\ RecordsUnder(installations', k1) = RecordsUnder(installations, k1)
            /\ GateCount(installations', k1) = GateCount(installations, k1)
     /\ \A k \in CycleKeys :
          FindInstallation(installations', InstallationId, k) = 0
            => GateCount(installations', k) = 0]_vars

\* Usage is recorded under the enterprise key, and a call under the other key
\* has created that key's record, which counts zero
C33_Witness ==
  /\ lastOp.renewalDate = "2025-06-01"
  /\ StoredPullRequests(installations, InstallationId, "2100-01-01") # <<>>
  /\ GateCount(installations, "2100-01-01") > 0
  /\ FindInstallation(installations, InstallationId, "2025-06-01") # 0
  /\ GateCount(installations, "2025-06-01") = 0

----------------------------------------------------------------------------
(* Claims about the deliveries whose first job run made progress, under Spec *)

\* The first job run returned, the handler has compared the branch with the
\* before-marker, and the branch had moved
FirstRunProgressed ==
  /\ d.flow \in {"issue", "review"}
  /\ d.job1 = "returned"
  /\ d.pc # "mid"
  /\ ~d.firstUnchanged

\* C34: when the branch SHA after the first run differs from the before-marker,
\* the job is run exactly once in that delivery and identifyMissingFiles is
\* never called, in both flows.
C34_ProgressMeansOneRun ==
  FirstRunProgressed => (d.jobCalls = 1 /\ d.analyzerCalls = 0)

\* A review delivery whose first run pushed a commit ended after one job run
C34_Witness ==
  /\ d.flow = "review"
  /\ d.pc = "done"
  /\ FirstRunProgressed
  /\ d.usageAppends = 1
  /\ d.reviewReset
  /\ github.branch # d.startSha

----------------------------------------------------------------------------
(* Claims about the usage append of the issue flow, under Spec *)

\* The calls of addPullRequestToUsage a delivery has made, failed ones included
UsageCalls(delivery) ==
  delivery.usageAppends + (IF delivery.usageFailed THEN 1 ELSE 0)

\* The PR entries recorded in the store, over all records
RecordedPrs(coll) == SumSeq([i \in 1..Len(coll) |-> Len(coll[i].pullRequests)])

\* C35: in the issue-labeled flow addPullRequestToUsage is called at most once
\* per delivery and only after the pull request was created; a delivery that
\* was denied, whose job run threw, or that ended without progress calls it
\* never and leaves the recorded PR usage as it was, whatever its job runs cost.
C35_AppendOnlyAfterPrCreated ==
  [][/\ d'.flow = "issue" =>
          /\ UsageCalls(d') <= 1
          /\ UsageCalls(d') = 1 =>
               /\ d'.prNumber # 0
               /\ d'.prNumber = github'.prs
               /\ d'.gate = "admitted"
               /\ "threw" \notin {d'.job1, d'.job2}
               /\ ~(d'.jobCalls = 2 /\ d'.endUnchanged)
     /\ (d.flow = "issue" /\ RecordedPrs(installations') # RecordedPrs(installations))
          => (/\ d.pc = "usage"
              /\ d.prNumber # 0
              /\ UsageCalls(d) = 0
              /\ RecordedPrs(installations') = RecordedPrs(installations) + 1)]_vars

\* A delivery whose retry threw after a first run that cost $12.50 ended with no
\* PR usage recorded
C35_Witness ==
  /\ d.flow = "issue"
  /\ d.pc = "done"
  /\ d.job1 = "returned"
  /\ d.job2 = "threw"
  /\ d.sessionCost > 0
  /\ UsageCalls(d) = 0
  /\ RecordedPrs(installations) = 0


\* C36: in the issue-labeled flow a pull request that was created on GitHub
\* has its usage append attempted before the delivery ends: once the PR exists
\* the handler is at the usage append or has made it, and neither the catch nor
\* the error handler is reached.
C36_CreatedPrIsMetered ==
  (d.flow = "issue" /\ d.prNumber # 0) =>
    /\ d.pc = "usage" \/ UsageCalls(d) = 1
    /\ d.pc # "catch"
    /\ d.errorHandlerCalls = 0

----------------------------------------------------------------------------
(* Claims about the subscriber's limit, under SpecPlan *)

\* C37: an account the gate admits as a paid subscriber was compared with one of
\* the table's limits 8, 20 or 50, and the units recorded in its cycle are below
\* that limit: no plan price yields an undefined limit that admits every request.
C37_AdmittedLimitInTable ==
  (/\ d.flow = "issue"
   /\ d.gate = "admitted"
   /\ d.usageAppends = 0
   /\ ~getEnterpriseClient({owner})) =>
    /\ getSubscriptionDetails(owner, TRUE).monthlyPrLimit.defined
    /\ getSubscriptionDetails(owner, TRUE).monthlyPrLimit.value \in {8, 20, 50}
    /\ UsedUnits(CycleRecord) < getSubscriptionDetails(owner, TRUE).monthlyPrLimit.value

----------------------------------------------------------------------------
(* Claims about the cycle key of the records the handlers write, under Spec *)

\* C38: every usage record the handlers created or updated has a defined cycle
\* key, a renewal date or the enterprise sentinel '2100-01-01'; the review flow
\* writes no record under an undefined key.
C38_CycleKeyDefined ==
  \A i \in 1..Len(installations) : installations[i].renewalDate \in CycleKeys

----------------------------------------------------------------------------
(* Claims about the branch-name round trip, under SpecBranch *)

\* C39: the branch name the issue flow builds from an issue number n and a title
\* is accepted by closeIssueForMergedPr's pattern, the number recovered from it
\* is n, and the merge of the PR on that branch touches no other issue.
C39_BranchNameRoundTrip ==
  labeled.branchName # <<>> =>
    /\ MatchIssueBranch(labeled.branchName).matched
    /\ parseInt(MatchIssueBranch(labeled.branchName).digits) = labeled.number
    /\ \A n \in IssueNumbers \ {labeled.number} : issues[n] = OpenIssues[n]
    /\ lastClose.called => lastClose.ref = labeled.branchName

\* Issue 12, whose title starts with a digit, was closed by the merge of its PR
C39_Witness ==
  /\ labeled.number = 12
  /\ labeled.title = TitleLeadingDigit
  /\ lastClose.called
  /\ issues[12].state = "closed"
  /\ issues[7] = OpenIssues[7]

====
